---- MODULE Spec2Model ----
(***************************************************************************)
(* A model of go-requests: the functional-options request builder, URL     *)
(* composition, dispatch with per-call client policy and error             *)
(* classification, the session prefixing of defaults, and the response     *)
(* wrapper with its run-once body materialization.                         *)
(***************************************************************************)
EXTENDS Integers, Sequences, FiniteSets, TLC

\* ------------------------------------------------------------------ bounds
\* longest per-call option list the model enumerates
MaxOpts == 2
\* longest session default list the model enumerates
MaxDefaults == 1
\* longest redirect chain a modelled server serves
MaxHops == 11
\* goroutines calling the accessors of one response wrapper
NumThreads == 2
\* longest response body, in bytes
MaxBodyLen == 2
\* goroutines calling the verb methods of one session
NumCallers == 2

\* ------------------------------------------------------------------ errors
\* An error value.  k: "nil" (no error), "sentinel" (one of the package's
\* error variables), "wrap" (fmt.Errorf("%w: %v", sentinel, cause)),
\* "status" (*StatusError), "foreign" (an error of the standard library).
\* s: the sentinel errors.Is reaches ("" for none); code/resp: the fields of
\* a StatusError (resp is the identity of the wrapper); cause: the text of
\* the wrapped error.
MkErr(k, s, code, resp, cause) ==
    [k |-> k, s |-> s, code |-> code, resp |-> resp, cause |-> cause]

NoErr == MkErr("nil", "", 0, 0, "")

ErrRequest == MkErr("sentinel", "ErrRequest", 0, 0, "")
ErrNetwork == MkErr("sentinel", "ErrNetwork", 0, 0, "")
ErrTimeout == MkErr("sentinel", "ErrTimeout", 0, 0, "")
ErrStatus == MkErr("sentinel", "ErrStatus", 0, 0, "")
ErrResponse == MkErr("sentinel", "ErrResponse", 0, 0, "")
ErrResponseNil == MkErr("sentinel", "ErrResponseNil", 0, 0, "")
ErrNoContent == MkErr("sentinel", "ErrNoContent", 0, 0, "")

\* an error of the standard library: none of the package's sentinels
Foreign(name) == MkErr("foreign", "", 0, 0, name)

\* fmt.Errorf("%w: %v", sentinel, cause): unwraps to the sentinel only
Wrapf(sentinel, cause) == MkErr("wrap", sentinel.s, 0, 0, cause.cause)

\* &StatusError{StatusCode: code, Response: wrapped}
StatusError(code, respId) == MkErr("status", "", code, respId, "")

\* (*StatusError).Unwrap
Unwrap(e) ==
    IF e.k = "status" THEN ErrStatus
    ELSE IF e.k = "wrap" THEN MkErr("sentinel", e.s, 0, 0, "")
    ELSE NoErr

\* errors.Is(e, target) for a sentinel target
Is(e, target) == e = target \/ (e.k \in {"status", "wrap"} /\ Unwrap(e) = target)

\* errors.As(e, *StatusError)
AsStatusError(e) == e.k = "status"

\* ------------------------------------------------------------ header maps
\* the header names the model's options use, as written by the caller
RawHeaderKeys == {"x-key", "X-Key", "Cookie", "Content-Type", "Accept-Encoding"}

\* textproto.CanonicalMIMEHeaderKey over RawHeaderKeys
Canon(k) == IF k = "x-key" THEN "X-Key" ELSE k

HeaderKeys == {Canon(k) : k \in RawHeaderKeys}

\* make(http.Header): no key holds a value
EmptyHeader == [k \in HeaderKeys |-> <<>>]

\* HeaderSet as http.Header.Add would do it: the value joins the others
HeaderSet_Add(h, key, value) == [h EXCEPT ![Canon(key)] = Append(@, value)]

\* http.Header.Set: the canonical key holds exactly the one value
HeaderSet(h, key, value) == [h EXCEPT ![Canon(key)] = <<value>>]

\* http.Header.Get: the first value of the canonical key, or ""
HeaderGet(h, key) == IF h[Canon(key)] = <<>> THEN "" ELSE h[Canon(key)][1]

\* ------------------------------------------------------------- query maps
QueryKeys == {"a", "b"}

\* the order url.Values.Encode writes the keys in
SortedQueryKeys == <<"a", "b">>

\* make(url.Values)
EmptyValues == [k \in QueryKeys |-> <<>>]

\* url.Values.Add: append to the key's values
ValuesAdd(q, key, value) == [q EXCEPT ![key] = Append(@, value)]

\* len(q) of a url.Values: the number of keys present
ValuesLen(q) == Cardinality({k \in QueryKeys : q[k] # <<>>})

\* ---------------------------------------------------------------- options
\* An option value: the closure a With* constructor returns, as the
\* arguments it captured.  kv lists a map argument's entries.
MkOpt(op, key, val, kv, n, ok) ==
    [op |-> op, key |-> key, val |-> val, kv |-> kv, n |-> n, ok |-> ok]

NilOption == MkOpt("nil", "", "", <<>>, 0, TRUE)
WithHeader(key, value) == MkOpt("Header", key, value, <<>>, 0, TRUE)
WithHeaders(h) == MkOpt("Headers", "", "", h, 0, TRUE)
WithQuery(q) == MkOpt("Query", "", "", q, 0, TRUE)
WithTimeout(d) == MkOpt("Timeout", "", "", <<>>, d, TRUE)
WithDecompressGzip == MkOpt("DecompressGzip", "", "", <<>>, 0, TRUE)
\* ok: json.Marshal(v) succeeds
WithJSON(ok) == MkOpt("JSON", "", "", <<>>, 0, ok)
WithForm(values) == MkOpt("Form", "", "", values, 0, TRUE)
WithBody(body) == MkOpt("Body", "", body, <<>>, 0, TRUE)
WithCookies(cookies) == MkOpt("Cookies", "", "", cookies, 0, TRUE)
\* ok: url.Parse(rawURL) succeeds
WithProxy(rawURL, ok) == MkOpt("Proxy", "", rawURL, <<>>, 0, ok)
WithRedirect(max) == MkOpt("Redirect", "", "", <<>>, max, TRUE)

\* range of a Go map in one of the orders the runtime may pick
MapOrder(kv, ord) ==
    IF ord = "rev" THEN [i \in 1..Len(kv) |-> kv[Len(kv) + 1 - i]] ELSE kv

\* ---------------------------------------------------------------- Request
\* &Request{method: method, url: rawURL}
ZeroRequest(method, rawURL) ==
    [method |-> method, url |-> rawURL,
     headersNil |-> TRUE, headers |-> EmptyHeader,
     query |-> EmptyValues,
     body |-> "",
     timeout |-> 0,
     cookies |-> <<>>,
     proxy |-> "",
     redirectSet |-> FALSE, redirectMax |-> 0,
     decompressGzip |-> FALSE,
     err |-> NoErr]

\* if r.headers == nil { r.headers = make(http.Header) }
EnsureHeaders(r) == [r EXCEPT !.headersNil = FALSE]

ApplyHeader(r, o) ==
    [EnsureHeaders(r) EXCEPT !.headers = HeaderSet(r.headers, o.key, o.val)]

RECURSIVE SetEach(_, _, _)
SetEach(h, kv, i) ==
    IF i > Len(kv) THEN h
    ELSE SetEach(HeaderSet(h, kv[i][1], kv[i][2]), kv, i + 1)

ApplyHeaders(r, o, ord) ==
    [EnsureHeaders(r) EXCEPT !.headers = SetEach(r.headers, MapOrder(o.kv, ord), 1)]

RECURSIVE AddEach(_, _, _)
AddEach(q, kv, i) ==
    IF i > Len(kv) THEN q
    ELSE AddEach(ValuesAdd(q, kv[i][1], kv[i][2]), kv, i + 1)

ApplyQuery(r, o, ord) ==
    [r EXCEPT !.query = AddEach(r.query, MapOrder(o.kv, ord), 1)]

ApplyTimeout(r, o) == [r EXCEPT !.timeout = o.n]

ApplyDecompressGzip(r) == [r EXCEPT !.decompressGzip = TRUE]

ApplyJSON(r, o) ==
    IF r.err # NoErr THEN r
    ELSE IF ~o.ok THEN [r EXCEPT !.err = Foreign("json: unsupported type")]
    ELSE LET r1 == [EnsureHeaders(r) EXCEPT !.body = "json"]
         IN  IF HeaderGet(r1.headers, "Content-Type") = ""
             THEN [r1 EXCEPT !.headers = HeaderSet(@, "Content-Type", "application/json")]
             ELSE r1

\* ApplyForm respecting a Content-Type already there, as ApplyJSON does
ApplyForm_IfAbsent(r, o) ==
    IF r.err # NoErr THEN r
    ELSE LET r1 == [EnsureHeaders(r) EXCEPT !.body = "form"]
         IN  IF HeaderGet(r1.headers, "Content-Type") = ""
             THEN [r1 EXCEPT !.headers =
                      HeaderSet(@, "Content-Type", "application/x-www-form-urlencoded")]
             ELSE r1

ApplyForm(r, o) ==
    IF r.err # NoErr THEN r
    ELSE [EnsureHeaders(r) EXCEPT
            !.body = "form",
            !.headers = HeaderSet(@, "Content-Type", "application/x-www-form-urlencoded")]

ApplyBody(r, o) == [r EXCEPT !.body = o.val]

ApplyCookies(r, o) == [r EXCEPT !.cookies = @ \o o.kv]

\* ApplyProxy without the look at the error slot: a later error replaces it
ApplyProxy_Overwrites(r, o) ==
    IF ~o.ok THEN [r EXCEPT !.err = Foreign("parse: missing protocol scheme")]
    ELSE [r EXCEPT !.proxy = o.val]

ApplyProxy(r, o) ==
    IF r.err # NoErr THEN r
    ELSE IF ~o.ok THEN [r EXCEPT !.err = Foreign("parse: missing protocol scheme")]
    ELSE [r EXCEPT !.proxy = o.val]

ApplyRedirect(r, o) == [r EXCEPT !.redirectSet = TRUE, !.redirectMax = o.n]

\* opt(r) for a non-nil option
Apply(r, o, ord) ==
    CASE o.op = "Header" -> ApplyHeader(r, o)
      [] o.op = "Headers" -> ApplyHeaders(r, o, ord)
      [] o.op = "Query" -> ApplyQuery(r, o, ord)
      [] o.op = "Timeout" -> ApplyTimeout(r, o)
      [] o.op = "DecompressGzip" -> ApplyDecompressGzip(r)
      [] o.op = "JSON" -> ApplyJSON(r, o)
      [] o.op = "Form" -> ApplyForm(r, o)
      [] o.op = "Body" -> ApplyBody(r, o)
      [] o.op = "Cookies" -> ApplyCookies(r, o)
      [] o.op = "Proxy" -> ApplyProxy(r, o)
      [] o.op = "Redirect" -> ApplyRedirect(r, o)
      [] OTHER -> r

RECURSIVE FoldOptions(_, _, _, _)
FoldOptions(r, opts, i, ord) ==
    IF i > Len(opts) THEN r
    ELSE FoldOptions(IF opts[i].op # "nil" THEN Apply(r, opts[i], ord) ELSE r,
                     opts, i + 1, ord)

newRequest(method, rawURL, opts, ord) ==
    FoldOptions(ZeroRequest(method, rawURL), opts, 1, ord)

\* ------------------------------------------------------------------- URLs
\* A target string: colonFirst says it starts with a colon before any
\* scheme (as "://invalid" does), which url.Parse rejects; base is the part
\* before the query; rawq lists the query string's &-separated pairs, each
\* <<key, value, wellFormed>> (a pair with a bad percent escape or a
\* semicolon is not well formed).
MkTarget(colonFirst, base, rawq) ==
    [colonFirst |-> colonFirst, base |-> base, rawq |-> rawq]

ZeroURL == [base |-> "", RawQuery |-> <<>>]

\* url.Parse: the query string is kept raw, not validated
ParseURL(raw) ==
    IF raw.colonFirst
    THEN [u |-> ZeroURL, err |-> Foreign("parse: missing protocol scheme")]
    ELSE [u |-> [base |-> raw.base, RawQuery |-> raw.rawq], err |-> NoErr]

\* (*url.URL).Query: url.ParseQuery with its error dropped; a malformed
\* pair is skipped, the others are added in order of appearance
RECURSIVE ParseQuery(_, _, _)
ParseQuery(rawq, i, acc) ==
    IF i > Len(rawq) THEN acc
    ELSE ParseQuery(rawq, i + 1,
                    IF rawq[i][3] THEN ValuesAdd(acc, rawq[i][1], rawq[i][2]) ELSE acc)

URLQuery(u) == ParseQuery(u.RawQuery, 1, EmptyValues)

\* the pairs of one key, in the order of its values
PairsOf(k, vals) == [i \in 1..Len(vals) |-> <<k, vals[i], TRUE>>]

\* url.Values.Encode: keys sorted, each key's values in order, all escaped
RECURSIVE EncodeFrom(_, _)
EncodeFrom(q, i) ==
    IF i > Len(SortedQueryKeys) THEN <<>>
    ELSE PairsOf(SortedQueryKeys[i], q[SortedQueryKeys[i]]) \o EncodeFrom(q, i + 1)

Encode(q) == EncodeFrom(q, 1)

\* q.Add(k, v) for every value of every key of r.query
RECURSIVE AddValues(_, _, _, _)
AddValues(q, k, vals, j) ==
    IF j > Len(vals) THEN q ELSE AddValues(ValuesAdd(q, k, vals[j]), k, vals, j + 1)

RECURSIVE MergeQuery(_, _, _)
MergeQuery(q, rq, i) ==
    IF i > Len(SortedQueryKeys) THEN q
    ELSE MergeQuery(AddValues(q, SortedQueryKeys[i], rq[SortedQueryKeys[i]], 1), rq, i + 1)

\* buildURL starting from an empty query instead of the target's
buildURL_DropsTargetQuery(r) ==
    LET p == ParseURL(r.url)
    IN  IF p.err # NoErr THEN p
        ELSE IF ValuesLen(r.query) = 0 THEN p
        ELSE [u |-> [p.u EXCEPT !.RawQuery = Encode(MergeQuery(EmptyValues, r.query, 1))],
              err |-> NoErr]

buildURL(r) ==
    LET p == ParseURL(r.url)
    IN  IF p.err # NoErr THEN p
        ELSE IF ValuesLen(r.query) = 0 THEN p
        ELSE [u |-> [p.u EXCEPT !.RawQuery = Encode(MergeQuery(URLQuery(p.u), r.query, 1))],
              err |-> NoErr]

\* ----------------------------------------------------------------- client
Methods == {"GET", "POST", "PUT", "PATCH", "DELETE", "HEAD", "OPTIONS"}

\* the request handed to client.Do
NoSent == [made |-> FALSE, method |-> "", url |-> ZeroURL, header |-> EmptyHeader,
           body |-> ""]

\* http.NewRequest(method, u.String(), body): fails on an invalid method
NewRequest(method, u, body) ==
    IF method \notin Methods
    THEN [req |-> NoSent, err |-> Foreign("net/http: invalid method")]
    ELSE [req |-> [made |-> TRUE, method |-> method, url |-> u,
                   header |-> EmptyHeader, body |-> body],
          err |-> NoErr]

\* AddCookie putting the cookie in the place of the Cookie header's value
AddCookie_Replaces(hreq, c) ==
    [hreq EXCEPT !.header = HeaderSet(@, "Cookie", c[1] \o "=" \o c[2])]

\* (*http.Request).AddCookie: the cookie joins the Cookie header's one value
AddCookie(hreq, c) ==
    LET s == c[1] \o "=" \o c[2]
        old == HeaderGet(hreq.header, "Cookie")
    IN  [hreq EXCEPT !.header =
            HeaderSet(@, "Cookie", IF old # "" THEN old \o "; " \o s ELSE s)]

RECURSIVE AddCookies(_, _, _)
AddCookies(hreq, cookies, i) ==
    IF i > Len(cookies) THEN hreq
    ELSE AddCookies(AddCookie(hreq, cookies[i]), cookies, i + 1)

\* &http.Client{} and what buildClient sets on it.  CheckRedirect "nil"
\* leaves the standard library's default policy in charge.
ZeroClient == [Timeout |-> 0, Proxy |-> "", CheckRedirect |-> "nil", max |-> 0]

buildClient(r) ==
    LET c1 == IF r.timeout > 0 THEN [ZeroClient EXCEPT !.Timeout = r.timeout]
              ELSE ZeroClient
        c2 == IF r.proxy # "" THEN [c1 EXCEPT !.Proxy = r.proxy] ELSE c1
    IN  IF r.redirectSet
        THEN [c2 EXCEPT !.CheckRedirect = "cap", !.max = r.redirectMax]
        ELSE c2

\* CheckRedirectCap with the comparison off by one
CheckRedirectCap_OffByOne(max, n) ==
    IF max <= 0 THEN "last"
    ELSE IF n >= max THEN "last"
    ELSE "follow"

\* the CheckRedirect closure of buildClient, asked with len(via) = n:
\* "last" is http.ErrUseLastResponse, "follow" is nil
CheckRedirectCap(max, n) ==
    IF max <= 0 THEN "last"
    ELSE IF n > max THEN "last"
    ELSE "follow"

\* the standard library's policy for a client without CheckRedirect
CheckRedirectDefault(n) == IF n >= 10 THEN "stop" ELSE "follow"

CheckRedirect(c, n) ==
    IF c.CheckRedirect = "cap" THEN CheckRedirectCap(c.max, n)
    ELSE CheckRedirectDefault(n)

\* an error the transport returns: deadline says errors.Is(err,
\* context.DeadlineExceeded); netErr that it is a net.Error; timeout what
\* its Timeout() answers
MkTransportErr(name, deadline, netErr, timeout) ==
    [name |-> name, deadline |-> deadline, netErr |-> netErr, timeout |-> timeout]

NoTransportErr == MkTransportErr("", FALSE, FALSE, FALSE)

\* classifyErr without the net.Error branch
classifyErr_DeadlineOnly(te) ==
    IF te.deadline THEN Wrapf(ErrTimeout, Foreign(te.name))
    ELSE Wrapf(ErrNetwork, Foreign(te.name))

classifyErr(te) ==
    IF te.deadline THEN Wrapf(ErrTimeout, Foreign(te.name))
    ELSE IF te.netErr /\ te.timeout THEN Wrapf(ErrTimeout, Foreign(te.name))
    ELSE Wrapf(ErrNetwork, Foreign(te.name))

\* A server: it answers the first `hops` requests of a call with a 302 and
\* a Location, then the next with status `final`, or not at all when `fail`
\* is an error; every exchange takes `delay`.
\* payload is what its handler writes as the body of the final answer, and
\* gzip says the handler writes it gzip-compressed, with Content-Encoding: gzip.
MkServer(hops, final, fail, delay) ==
    [hops |-> hops, final |-> final, fail |-> fail, delay |-> delay,
     payload |-> <<>>, gzip |-> FALSE]

\* gzip.NewWriter(&buf).Write(data): the gzip magic, then the deflated data
Gzip(data) == <<"0x1f", "0x8b">> \o data

\* what a gzip reader gives for a compressed body
Gunzip(b) == SubSeq(b, 3, Len(b))

\* Raw.Body of the response client.Do returns for the server's final answer.
\* The transport asks for gzip on its own, and then decompresses a gzip body
\* transparently, only when the request carries no Accept-Encoding header and
\* is not a HEAD; a body the caller asked for with its own Accept-Encoding
\* comes back as the server wrote it.  A HEAD has no body.
ResponseBody(hreq, srv) ==
    LET written == IF srv.gzip THEN Gzip(srv.payload) ELSE srv.payload
        addedGzip == HeaderGet(hreq.header, "Accept-Encoding") = ""
    IN  IF hreq.method = "HEAD" THEN <<>>
        ELSE IF addedGzip /\ srv.gzip THEN Gunzip(written)
        ELSE written

\* client.Do from its n-th exchange on: a timeout of the client bounds the
\* whole call; a redirect is followed when the policy allows it; status 0
\* stands for no response
RECURSIVE ClientDoFrom(_, _, _)
ClientDoFrom(c, srv, n) ==
    IF c.Timeout > 0 /\ n * srv.delay > c.Timeout
    THEN [status |-> 0, trips |-> n,
          terr |-> MkTransportErr("Client.Timeout exceeded", TRUE, TRUE, TRUE)]
    ELSE IF n <= srv.hops
    THEN LET verdict == CheckRedirect(c, n)
         IN  IF verdict = "last"
             THEN [status |-> 302, trips |-> n, terr |-> NoTransportErr]
             ELSE IF verdict = "stop"
             THEN [status |-> 0, trips |-> n,
                   terr |-> MkTransportErr("stopped after 10 redirects", FALSE, TRUE, FALSE)]
             ELSE ClientDoFrom(c, srv, n + 1)
    ELSE IF srv.fail # NoTransportErr
    THEN [status |-> 0, trips |-> n, terr |-> srv.fail]
    ELSE [status |-> srv.final, trips |-> n, terr |-> NoTransportErr]

ClientDo(c, srv) == ClientDoFrom(c, srv, 1)

\* --------------------------------------------------------------- Response
\* a *Response: nil, or a wrapper with its identity, the status code it
\* copied and whether Raw and Raw.Body are there
NilResponse == [nil |-> TRUE, id |-> 0, StatusCode |-> 0, raw |-> FALSE, hasBody |-> FALSE]

newResponse(status, id) ==
    IF status = 0 THEN NilResponse
    ELSE [nil |-> FALSE, id |-> id, StatusCode |-> status, raw |-> TRUE, hasBody |-> TRUE]

\* r == nil || r.Raw == nil || r.Raw.Body == nil, without the last test
IsNilResponse_NoBodyTest(w) == w.nil \/ ~w.raw

\* r == nil || r.Raw == nil || r.Raw.Body == nil
IsNilResponse(w) == w.nil \/ ~w.raw \/ ~w.hasBody

\* the bytes a body may hold: a digit and a letter
ByteAlphabet == {"1", "x"}

\* Raw.Body: its content, whether and after how many bytes a Read fails,
\* how far it was read, and the counts of read-to-the-end passes and closes
MkStream(data, fails, failAt) ==
    [data |-> data, fails |-> fails, failAt |-> failAt, pos |-> 0,
     readAlls |-> 0, closes |-> 0]

NoStream == MkStream(<<>>, FALSE, 0)

\* io.ReadAll(body): what is left of the content, up to the failing Read or
\* the end; a closed body gives nothing but an error
ReadAll(st) ==
    IF st.closes > 0
    THEN [bytes |-> <<>>, err |-> Foreign("read on closed body"),
          st |-> [st EXCEPT !.readAlls = @ + 1]]
    ELSE IF st.fails /\ st.failAt >= st.pos
    THEN [bytes |-> SubSeq(st.data, st.pos + 1, st.failAt),
          err |-> Foreign("unexpected EOF"),
          st |-> [st EXCEPT !.pos = st.failAt, !.readAlls = @ + 1]]
    ELSE [bytes |-> SubSeq(st.data, st.pos + 1, Len(st.data)), err |-> NoErr,
          st |-> [st EXCEPT !.pos = Len(st.data), !.readAlls = @ + 1]]

\* Body.Close that closes nothing
BodyClose_Leak(st) == st

\* r.Raw.Body.Close()
BodyClose(st) == [st EXCEPT !.closes = @ + 1]

\* sync.Once that never remembers its run
OnceDone_Never(o) == FALSE

\* o.done.Load() != 0 of r.once
OnceDone(o) == o.done

\* the JSON texts over ByteAlphabet: the numbers, which are the non-empty
\* runs of digits
IsJSONText(b) == b # <<>> /\ \A i \in 1..Len(b) : b[i] = "1"

\* json.Unmarshal(b, v) for a target v that is a *any ("any") or a
\* *map[string]any ("map"): set says v was written, val what it holds then
Unmarshal(b, target) ==
    IF ~IsJSONText(b) THEN [err |-> Foreign("json: syntax error"), set |-> FALSE, val |-> <<>>]
    ELSE IF target = "map"
    THEN [err |-> Foreign("json: cannot unmarshal number"), set |-> FALSE, val |-> <<>>]
    ELSE [err |-> NoErr, set |-> TRUE, val |-> b]

\* what an accessor returned: the bytes (or text), the error, whether a
\* decode was tried and what it wrote to the target, whether it panicked
MkRet(op, bytes, err, tried, set, val, panicked) ==
    [op |-> op, bytes |-> bytes, err |-> err, tried |-> tried, set |-> set,
     val |-> val, panicked |-> panicked]

NoRet == MkRet("", <<>>, NoErr, FALSE, FALSE, <<>>, FALSE)

\* Bytes: return r.body, r.bodyErr
BytesResult(b, err) == MkRet("Bytes", b, err, FALSE, FALSE, <<>>, FALSE)

\* Text: return string(b), err
TextResult(b, err) == MkRet("Text", b, err, FALSE, FALSE, <<>>, FALSE)

\* JSON testing the length before the error
JSONResult_LenFirst(b, err, target) ==
    IF Len(b) = 0 THEN MkRet("JSON", <<>>, ErrNoContent, FALSE, FALSE, <<>>, FALSE)
    ELSE IF err # NoErr THEN MkRet("JSON", <<>>, err, FALSE, FALSE, <<>>, FALSE)
    ELSE LET u == Unmarshal(b, target)
         IN  MkRet("JSON", <<>>, u.err, TRUE, u.set, u.val, FALSE)

\* JSON, after b, err := r.Bytes()
JSONResult(b, err, target) ==
    IF err # NoErr THEN MkRet("JSON", <<>>, err, FALSE, FALSE, <<>>, FALSE)
    ELSE IF Len(b) = 0 THEN MkRet("JSON", <<>>, ErrNoContent, FALSE, FALSE, <<>>, FALSE)
    ELSE LET u == Unmarshal(b, target)
         IN  MkRet("JSON", <<>>, u.err, TRUE, u.set, u.val, FALSE)

\* what the accessor op returns once Bytes has its b and err
Result(op, b, err, target) ==
    CASE op = "Bytes" -> BytesResult(b, err)
      [] op = "Text" -> TextResult(b, err)
      [] OTHER -> JSONResult(b, err, target)

\* --------------------------------------------------------------- dispatch
NoOutcome == [resp |-> NilResponse, err |-> NoErr, req |-> ZeroRequest("", MkTarget(FALSE, "", <<>>)),
              sent |-> NoSent, client |-> ZeroClient, doCalls |-> 0, roundTrips |-> 0,
              body |-> <<>>]

\* doSend returning the status error without the wrapper
doSend_DropsWrapper(r, hreq, srv) ==
    LET client == buildClient(r)
        got == ClientDo(client, srv)
        wrapped == newResponse(got.status, 1)
        base == [NoOutcome EXCEPT !.req = r, !.sent = hreq, !.client = client,
                                  !.doCalls = 1, !.roundTrips = got.trips]
    IN  IF got.terr # NoTransportErr
        THEN [base EXCEPT !.err = classifyErr(got.terr)]
        ELSE IF got.status < 200 \/ got.status >= 300
        THEN [base EXCEPT !.err = StatusError(got.status, wrapped.id)]
        ELSE [base EXCEPT !.resp = wrapped, !.body = ResponseBody(hreq, srv)]

\* doSend taking 299 for a failure
doSend_Fails299(r, hreq, srv) ==
    LET client == buildClient(r)
        got == ClientDo(client, srv)
        wrapped == newResponse(got.status, 1)
        base == [NoOutcome EXCEPT !.req = r, !.sent = hreq, !.client = client,
                                  !.doCalls = 1, !.roundTrips = got.trips]
    IN  IF got.terr # NoTransportErr
        THEN [base EXCEPT !.err = classifyErr(got.terr)]
        ELSE IF got.status < 200 \/ got.status >= 299
        THEN [base EXCEPT !.resp = wrapped, !.body = ResponseBody(hreq, srv),
                          !.err = StatusError(got.status, wrapped.id)]
        ELSE [base EXCEPT !.resp = wrapped, !.body = ResponseBody(hreq, srv)]

\* the part of do after the request is built: the call and its outcome
doSend(r, hreq, srv) ==
    LET client == buildClient(r)
        got == ClientDo(client, srv)
        wrapped == newResponse(got.status, 1)
        base == [NoOutcome EXCEPT !.req = r, !.sent = hreq, !.client = client,
                                  !.doCalls = 1, !.roundTrips = got.trips]
    IN  IF got.terr # NoTransportErr
        THEN [base EXCEPT !.err = classifyErr(got.terr)]
        ELSE IF got.status < 200 \/ got.status >= 300
        THEN [base EXCEPT !.resp = wrapped, !.body = ResponseBody(hreq, srv),
                          !.err = StatusError(got.status, wrapped.id)]
        ELSE [base EXCEPT !.resp = wrapped, !.body = ResponseBody(hreq, srv)]

\* do without the look at the builder's error slot
do_IgnoresErrSlot(method, rawURL, opts, ord, srv) ==
    LET r == newRequest(method, rawURL, opts, ord)
        built == buildURL(r)
        nr == NewRequest(method, built.u, r.body)
        h1 == IF ~r.headersNil THEN [nr.req EXCEPT !.header = r.headers] ELSE nr.req
        hreq == AddCookies(h1, r.cookies, 1)
    IN  IF built.err # NoErr
        THEN [NoOutcome EXCEPT !.req = r, !.err = Wrapf(ErrRequest, built.err)]
        ELSE IF nr.err # NoErr
        THEN [NoOutcome EXCEPT !.req = r, !.err = Wrapf(ErrRequest, nr.err)]
        ELSE doSend(r, hreq, srv)

\* do from the folded builder on: the checks, the request, the call
doBuilt(r, srv) ==
    LET built == buildURL(r)
        nr == NewRequest(r.method, built.u, r.body)
        h1 == IF ~r.headersNil THEN [nr.req EXCEPT !.header = r.headers] ELSE nr.req
        hreq == AddCookies(h1, r.cookies, 1)
    IN  IF r.err # NoErr
        THEN [NoOutcome EXCEPT !.req = r, !.err = Wrapf(ErrRequest, r.err)]
        ELSE IF built.err # NoErr
        THEN [NoOutcome EXCEPT !.req = r, !.err = Wrapf(ErrRequest, built.err)]
        ELSE IF nr.err # NoErr
        THEN [NoOutcome EXCEPT !.req = r, !.err = Wrapf(ErrRequest, nr.err)]
        ELSE doSend(r, hreq, srv)

do(method, rawURL, opts, ord, srv) ==
    doBuilt(newRequest(method, rawURL, opts, ord), srv)

\* (*Session).do: the defaults, then the call's options
SessionDo(defaults, method, rawURL, opts, ord, srv) ==
    do(method, rawURL, defaults \o opts, ord, srv)

\* ----------------------------------------------------------------- inputs
\* the sequences over `alphabet` of length at most n
RECURSIVE SeqsUpTo(_, _)
SeqsUpTo(alphabet, n) ==
    IF n = 0 THEN {<<>>}
    ELSE LET shorter == SeqsUpTo(alphabet, n - 1)
         IN  shorter \cup {Append(q, o) : q \in shorter, o \in alphabet}

\* the options a call draws from when the builder is under study
OptAlphabet ==
    {WithHeader("x-key", "a"), WithHeader("X-Key", "b"), WithHeader("Cookie", "k=v"),
     WithHeader("Content-Type", "text/plain"),
     WithHeaders(<< <<"x-key", "c">>, <<"X-Key", "d">> >>),
     WithQuery(<< <<"a", "3">>, <<"b", "2">> >>),
     WithTimeout(50), WithDecompressGzip,
     WithJSON(TRUE), WithJSON(FALSE),
     WithForm(<< <<"name", "bob">> >>), WithBody("raw"),
     WithCookies(<< <<"session", "abc">> >>), WithCookies(<< <<"t", "1">> >>),
     WithProxy("http://proxy:8080", TRUE), WithProxy("://invalid", FALSE),
     WithRedirect(1), NilOption}

\* the options a call draws from when URL composition is under study
QueryAlphabet ==
    {WithQuery(<< <<"a", "3">>, <<"b", "2">> >>), WithQuery(<< <<"a", "4">> >>),
     WithQuery(<<>>)}

\* the options a call draws from when the client policy is under study
TransportAlphabet ==
    {WithTimeout(50), WithRedirect(0 - 1), WithRedirect(0), WithRedirect(1),
     WithRedirect(2)}

\* the options a call draws from when the body's encoding is under study
GzipAlphabet == {WithHeader("Accept-Encoding", "gzip"), WithDecompressGzip}

\* the options a session is built with
DefaultAlphabet ==
    {WithHeader("X-Key", "default"), WithJSON(FALSE)}

PlainTarget == MkTarget(FALSE, "http://h/p", <<>>)

Targets ==
    {PlainTarget,
     MkTarget(FALSE, "http://h/p", << <<"a", "1", TRUE>> >>),
     MkTarget(FALSE, "http://h/p", << <<"b", "9", TRUE>>, <<"a", "1", TRUE>>, <<"a", "0", TRUE>> >>),
     MkTarget(FALSE, "http://h/p", << <<"a", "1", TRUE>>, <<"b", "%zz", FALSE>> >>),
     MkTarget(TRUE, "://invalid", <<>>)}

PlainServer == MkServer(0, 200, NoTransportErr, 0)

FinalStatuses == {101, 200, 299, 300, 304, 399, 400, 404, 500, 599}

\* what client.Do can return as the failure of an exchange: a *url.Error,
\* which is a net.Error whatever it wraps
TransportErrs ==
    {MkTransportErr("dial: refused", FALSE, TRUE, FALSE),
     MkTransportErr("dial: i/o timeout", FALSE, TRUE, TRUE),
     MkTransportErr("context deadline exceeded", TRUE, TRUE, TRUE),
     MkTransportErr("wrapped deadline", TRUE, TRUE, FALSE)}

\* what the handlers of the body tests write
ServerText == <<"x", "1">>

\* the servers that answer 200 with ServerText, compressed or not
GzipServers == {[PlainServer EXCEPT !.payload = ServerText, !.gzip = g] : g \in BOOLEAN}

Servers ==
    {MkServer(h, f, NoTransportErr, 0) : h \in 0..MaxHops, f \in {200, 404}}
    \cup GzipServers
    \cup {MkServer(0, f, NoTransportErr, 0) : f \in FinalStatuses}
    \cup {MkServer(h, 200, e, 0) : h \in {0, 1}, e \in TransportErrs}
    \cup {MkServer(h, 200, NoTransportErr, d) : h \in {0, 1}, d \in {30, 100}}

\* the (target, options) pairs a caller passes, given the server it talks
\* to and the session it holds
CallInputs(srv, defaults) ==
    (IF srv = PlainServer
     THEN {[url |-> PlainTarget, opts |-> o] : o \in SeqsUpTo(OptAlphabet, MaxOpts)}
          \cup {[url |-> u, opts |-> o] : u \in Targets, o \in SeqsUpTo(QueryAlphabet, MaxOpts)}
     ELSE {})
    \cup (IF defaults = <<>>
          THEN {[url |-> PlainTarget, opts |-> o] : o \in SeqsUpTo(TransportAlphabet, MaxOpts)}
          ELSE {})
    \cup (IF srv \in GzipServers
          THEN {[url |-> PlainTarget, opts |-> o] : o \in SeqsUpTo(GzipAlphabet, MaxOpts)}
          ELSE {})

\* the orders the runtime may range a map argument in: they differ only
\* for a map of two entries or more
Orders(opts) ==
    IF \E i \in 1..Len(opts) : Len(opts[i].kv) >= 2 /\ opts[i].op \in {"Headers", "Query", "Form"}
    THEN {"fwd", "rev"}
    ELSE {"fwd"}

\* ------------------------------------------------------------------ state
VARIABLES
    server,   \* the server (and network) the calls reach
    sopts,    \* Session.opts
    pc,       \* "idle" before the call, "returned" after it
    call,     \* the arguments of the call made
    out,      \* what the call returned and what it put on the wire
    rw,       \* a response wrapper in the hands of the accessors' callers
    once,     \* its sync.Once: done, and the goroutine holding its mutex
    cache,    \* its body and bodyErr fields
    stream,   \* its Raw.Body
    thr,      \* per goroutine: where it is in an accessor, and what the
              \* call it made last returned, once it has returned
    given,    \* the slice NewSession was called with, as its caller holds it
    gor       \* per goroutine calling the session: where it is in
              \* Session.do, its arguments, its slice `all`, its builder and
              \* what its call returned

dvars == <<server, sopts, pc, call, out>>
rvars == <<rw, once, cache, stream, thr>>
svars == <<given, gor>>
vars == <<server, sopts, pc, call, out, rw, once, cache, stream, thr, given, gor>>

Threads == 1..NumThreads

IdleThread == [pc |-> "idle", op |-> "", target |-> "", ret |-> NoRet]

\* no wrapper is in use
InitNoWrapper ==
    /\ rw = NilResponse
    /\ once = [done |-> FALSE, holder |-> 0]
    /\ cache = [body |-> <<>>, bodyErr |-> NoErr]
    /\ stream = NoStream
    /\ thr = [t \in Threads |-> IdleThread]

Callers == 1..NumCallers

IdleCaller == [pc |-> "idle", method |-> "", url |-> PlainTarget, opts |-> <<>>,
               ord |-> "fwd", all |-> <<>>, i |-> 0,
               req |-> ZeroRequest("", PlainTarget), out |-> NoOutcome]

\* no goroutine is in Session.do
InitNoCallers == gor = [t \in Callers |-> IdleCaller]

NoCall == [method |-> "", url |-> PlainTarget, opts |-> <<>>, all |-> <<>>,
           viaSession |-> FALSE, ord |-> "fwd"]

\* NewSession: the session holds a copy of the options it was given
NewSession(opts) == opts

Init ==
    /\ \E defaults \in SeqsUpTo(DefaultAlphabet, MaxDefaults), srv \in Servers :
          /\ (defaults = <<>> \/ srv = PlainServer)
          /\ given = defaults
          /\ sopts = NewSession(defaults)
          /\ server = srv
    /\ pc = "idle"
    /\ call = NoCall
    /\ out = NoOutcome
    /\ InitNoWrapper
    /\ InitNoCallers

\* a top-level verb function: do(method, url, opts...)
Verb(method) ==
    /\ pc = "idle"
    /\ \E in \in CallInputs(server, sopts) :
         \E ord \in Orders(in.opts) :
            /\ call' = [method |-> method, url |-> in.url, opts |-> in.opts,
                        all |-> in.opts, viaSession |-> FALSE, ord |-> ord]
            /\ out' = do(method, in.url, in.opts, ord, server)
    /\ pc' = "returned"
    /\ UNCHANGED <<server, sopts>>
    /\ UNCHANGED rvars
    /\ UNCHANGED svars

\* a verb method of the session: s.do(method, url, opts...)
SessionVerb(method) ==
    /\ pc = "idle"
    /\ \E in \in CallInputs(server, sopts) :
         \E ord \in Orders(sopts \o in.opts) :
            /\ call' = [method |-> method, url |-> in.url, opts |-> in.opts,
                        all |-> sopts \o in.opts, viaSession |-> TRUE, ord |-> ord]
            /\ out' = SessionDo(sopts, method, in.url, in.opts, ord, server)
    /\ pc' = "returned"
    /\ UNCHANGED <<server, sopts>>
    /\ UNCHANGED rvars
    /\ UNCHANGED svars

Get == Verb("GET")
Post == Verb("POST")
Put == Verb("PUT")
Patch == Verb("PATCH")
Delete == Verb("DELETE")
\* Head (the name Head is taken by Sequences)
HeadVerb == Verb("HEAD")
Options == Verb("OPTIONS")

SessionGet == SessionVerb("GET")
SessionPost == SessionVerb("POST")
SessionPut == SessionVerb("PUT")
SessionPatch == SessionVerb("PATCH")
SessionDelete == SessionVerb("DELETE")
SessionHead == SessionVerb("HEAD")
SessionOptions == SessionVerb("OPTIONS")

Next ==
    \/ Get \/ Post \/ Put \/ Patch \/ Delete \/ HeadVerb \/ Options
    \/ SessionGet \/ SessionPost \/ SessionPut \/ SessionPatch
    \/ SessionDelete \/ SessionHead \/ SessionOptions

Spec == Init /\ [][Next]_vars

\* ------------------------------------------------- the response accessors
\* the wrappers a caller can hold: nil, without Raw, without Raw.Body, and
\* what newResponse makes of a response
Wrappers ==
    {NilResponse,
     [nil |-> FALSE, id |-> 1, StatusCode |-> 200, raw |-> FALSE, hasBody |-> FALSE],
     [nil |-> FALSE, id |-> 1, StatusCode |-> 200, raw |-> TRUE, hasBody |-> FALSE],
     newResponse(200, 1)}

\* the wrapper holds a response with a body stream
Readable(w) == ~w.nil /\ w.raw /\ w.hasBody

Bodies == SeqsUpTo(ByteAlphabet, MaxBodyLen)

\* the targets JSON is called with
JSONTargets == {"any", "map"}

Streams ==
    {MkStream(d, FALSE, 0) : d \in Bodies}
    \cup UNION {{MkStream(d, TRUE, n) : n \in 0..Len(d)} : d \in Bodies}

InitResp ==
    /\ server = PlainServer
    /\ sopts = <<>>
    /\ pc = "idle"
    /\ call = NoCall
    /\ out = NoOutcome
    /\ rw \in Wrappers
    /\ once = [done |-> FALSE, holder |-> 0]
    /\ cache = [body |-> <<>>, bodyErr |-> NoErr]
    /\ stream \in (IF Readable(rw) THEN Streams ELSE {NoStream})
    /\ thr = [t \in Threads |-> IdleThread]
    /\ given = <<>>
    /\ InitNoCallers

\* goroutine t enters accessor op: a nil wrapper, Raw or Raw.Body ends the
\* call at once; otherwise t stands before r.once.Do
Enter(t, op, target) ==
    /\ thr[t].pc = "idle"
    /\ thr' = [thr EXCEPT ![t] =
                 IF IsNilResponse(rw)
                 THEN [IdleThread EXCEPT !.ret = Result(op, <<>>, ErrResponseNil, target)]
                 ELSE [pc |-> "once", op |-> op, target |-> target, ret |-> NoRet]]
    /\ UNCHANGED <<rw, once, cache, stream>>
    /\ UNCHANGED dvars
    /\ UNCHANGED svars

Bytes(t) == Enter(t, "Bytes", "")
Text(t) == Enter(t, "Text", "")
JSON(t) == \E target \in JSONTargets : Enter(t, "JSON", target)

\* once.Do, fast path: a finished Once is left alone
OnceFast(t) ==
    /\ thr[t].pc = "once"
    /\ thr' = [thr EXCEPT ![t].pc = IF OnceDone(once) THEN "return" ELSE "lock"]
    /\ UNCHANGED <<rw, once, cache, stream>>
    /\ UNCHANGED dvars
    /\ UNCHANGED svars

\* once.doSlow: take the mutex, look at done again
OnceLock(t) ==
    /\ thr[t].pc = "lock"
    /\ once.holder = 0
    /\ once' = [once EXCEPT !.holder = t]
    /\ thr' = [thr EXCEPT ![t].pc = IF OnceDone(once) THEN "unlock" ELSE "read"]
    /\ UNCHANGED <<rw, cache, stream>>
    /\ UNCHANGED dvars
    /\ UNCHANGED svars

\* r.body, r.bodyErr = io.ReadAll(r.Raw.Body); a nil Body panics, and the
\* panic leaves the Once done and unlocked
ReadBody(t) ==
    /\ thr[t].pc = "read"
    /\ IF ~rw.hasBody
       THEN /\ thr' = [thr EXCEPT ![t] =
                         [IdleThread EXCEPT !.ret =
                             MkRet(thr[t].op, <<>>, NoErr, FALSE, FALSE, <<>>, TRUE)]]
            /\ once' = [done |-> TRUE, holder |-> 0]
            /\ UNCHANGED <<cache, stream>>
       ELSE LET got == ReadAll(stream)
            IN  /\ cache' = [body |-> got.bytes, bodyErr |-> got.err]
                /\ stream' = got.st
                /\ thr' = [thr EXCEPT ![t].pc = "close"]
                /\ UNCHANGED once
    /\ UNCHANGED rw
    /\ UNCHANGED dvars
    /\ UNCHANGED svars

\* defer r.Raw.Body.Close()
CloseBody(t) ==
    /\ thr[t].pc = "close"
    /\ stream' = BodyClose(stream)
    /\ thr' = [thr EXCEPT ![t].pc = "store"]
    /\ UNCHANGED <<rw, once, cache>>
    /\ UNCHANGED dvars
    /\ UNCHANGED svars

\* defer o.done.Store(1)
OnceStore(t) ==
    /\ thr[t].pc = "store"
    /\ once' = [once EXCEPT !.done = TRUE]
    /\ thr' = [thr EXCEPT ![t].pc = "unlock"]
    /\ UNCHANGED <<rw, cache, stream>>
    /\ UNCHANGED dvars
    /\ UNCHANGED svars

\* defer o.m.Unlock()
OnceUnlock(t) ==
    /\ thr[t].pc = "unlock"
    /\ once' = [once EXCEPT !.holder = 0]
    /\ thr' = [thr EXCEPT ![t].pc = "return"]
    /\ UNCHANGED <<rw, cache, stream>>
    /\ UNCHANGED dvars
    /\ UNCHANGED svars

\* return r.body, r.bodyErr, and what Text or JSON make of them
Return(t) ==
    /\ thr[t].pc = "return"
    /\ thr' = [thr EXCEPT ![t] =
                 [IdleThread EXCEPT !.ret =
                     Result(thr[t].op, cache.body, cache.bodyErr, thr[t].target)]]
    /\ UNCHANGED <<rw, once, cache, stream>>
    /\ UNCHANGED dvars
    /\ UNCHANGED svars

NextResp ==
    \E t \in Threads :
        \/ Bytes(t) \/ Text(t) \/ JSON(t)
        \/ OnceFast(t) \/ OnceLock(t) \/ ReadBody(t) \/ CloseBody(t)
        \/ OnceStore(t) \/ OnceUnlock(t) \/ Return(t)

SpecResp == InitResp /\ [][NextResp]_vars

\* ------------------------------------------- one session, several callers
\* the options the callers of a shared session pass
SessAlphabet == {WithHeader("x-key", "a"), WithCookies(<< <<"t", "1">> >>)}

\* the verbs the callers of a shared session use
SessMethods == {"GET", "POST"}

\* Session.opts sharing the array of the slice NewSession was given
NewSessionShares_Alias == TRUE

\* NewSession: does Session.opts share the array of the slice it was given?
\* copied := make([]Option, len(opts)); copy(copied, opts): it does not
NewSessionShares == FALSE

InitSess ==
    /\ \E defaults \in SeqsUpTo(DefaultAlphabet, MaxDefaults) :
          /\ given = defaults
          /\ sopts = NewSession(defaults)
    /\ server = PlainServer
    /\ pc = "idle"
    /\ call = NoCall
    /\ out = NoOutcome
    /\ InitNoWrapper
    /\ InitNoCallers

\* the caller of NewSession writes an element of the slice it passed
MutateGiven ==
    /\ \E i \in 1..Len(given), o \in SessAlphabet \cup DefaultAlphabet :
          /\ given[i] # o
          /\ given' = [given EXCEPT ![i] = o]
    /\ sopts' = IF NewSessionShares THEN given' ELSE sopts
    /\ UNCHANGED <<server, pc, call, out, gor>>
    /\ UNCHANGED rvars

\* goroutine t calls a verb method of the session: s.do(method, url, opts...)
\* starts with all := make([]Option, 0, len(s.opts)+len(opts))
SessionDoEnter(t) ==
    /\ gor[t].pc \in {"idle", "done"}
    /\ \E method \in SessMethods, opts \in SeqsUpTo(SessAlphabet, MaxOpts) :
         \E ord \in Orders(opts) :
            gor' = [gor EXCEPT ![t] =
                      [IdleCaller EXCEPT !.pc = "defaults", !.method = method,
                                         !.opts = opts, !.ord = ord]]
    /\ UNCHANGED <<server, sopts, pc, call, out, given>>
    /\ UNCHANGED rvars

\* all = append(all, s.opts...)
AppendDefaults(t) ==
    /\ gor[t].pc = "defaults"
    /\ gor' = [gor EXCEPT ![t].all = @ \o sopts, ![t].pc = "opts"]
    /\ UNCHANGED <<server, sopts, pc, call, out, given>>
    /\ UNCHANGED rvars

\* all = append(all, opts...); do begins: req := &Request{method, url}
AppendOpts(t) ==
    /\ gor[t].pc = "opts"
    /\ gor' = [gor EXCEPT ![t].all = @ \o gor[t].opts, ![t].pc = "fold", ![t].i = 1,
                           ![t].req = ZeroRequest(gor[t].method, gor[t].url)]
    /\ UNCHANGED <<server, sopts, pc, call, out, given>>
    /\ UNCHANGED rvars

\* one turn of newRequest's loop: if opt != nil { opt(req) }
ApplyOption(t) ==
    /\ gor[t].pc = "fold"
    /\ gor[t].i <= Len(gor[t].all)
    /\ gor' = [gor EXCEPT
                 ![t].req = IF gor[t].all[gor[t].i].op # "nil"
                            THEN Apply(@, gor[t].all[gor[t].i], gor[t].ord) ELSE @,
                 ![t].i = @ + 1]
    /\ UNCHANGED <<server, sopts, pc, call, out, given>>
    /\ UNCHANGED rvars

\* the rest of do, on the builder the loop left
Send(t) ==
    /\ gor[t].pc = "fold"
    /\ gor[t].i > Len(gor[t].all)
    /\ gor' = [gor EXCEPT ![t].out = doBuilt(gor[t].req, server), ![t].pc = "done"]
    /\ UNCHANGED <<server, sopts, pc, call, out, given>>
    /\ UNCHANGED rvars

NextSess ==
    \/ MutateGiven
    \/ \E t \in Callers :
          \/ SessionDoEnter(t) \/ AppendDefaults(t) \/ AppendOpts(t)
          \/ ApplyOption(t) \/ Send(t)

SpecSess == InitSess /\ [][NextSess]_vars

\* ------------------------------------------------- properties of dispatch
Returned == pc = "returned"

\* what the client got for the call that was issued
Answer == ClientDo(out.client, server)

Sentinels ==
    {ErrRequest, ErrNetwork, ErrTimeout, ErrStatus, ErrResponse, ErrResponseNil,
     ErrNoContent}

\* C1: whatever the verb, a final response with a status in 400..599 comes
\* back as a non-nil wrapper with that status, together with a StatusError
\* of the ErrStatus category that carries the same code and that very wrapper.
C1_StatusErrorKeepsResponse ==
    (Returned /\ out.doCalls = 1 /\ Answer.terr = NoTransportErr
       /\ Answer.status \in 400..599)
    => /\ ~out.resp.nil
       /\ out.resp.StatusCode = Answer.status
       /\ AsStatusError(out.err)
       /\ Is(out.err, ErrStatus)
       /\ out.err.code = Answer.status
       /\ out.err.resp = out.resp.id

C1_Witness ==
    /\ Returned /\ call.method = "DELETE" /\ server.final = 404 /\ server.hops = 0
    /\ out.resp.StatusCode = 404 /\ out.err = StatusError(404, out.resp.id)

\* an option that writes the error slot when it is applied to an empty slot
Fails(o) == o.op \in {"JSON", "Proxy"} /\ ~o.ok

\* C2: a request-build failure (an option failed, or the target does not
\* parse) gives a nil response and an ErrRequest error, and no call that
\* ends in ErrRequest reached the transport.
C2_BuildFailureSendsNothing ==
    Returned =>
      /\ ((\E i \in 1..Len(call.all) : Fails(call.all[i])) \/ call.url.colonFirst)
            => (out.resp.nil /\ Is(out.err, ErrRequest))
      /\ Is(out.err, ErrRequest)
            => (out.resp.nil /\ out.doCalls = 0 /\ out.roundTrips = 0 /\ ~out.sent.made)

C2_Witness ==
    /\ Returned /\ call.all = <<WithHeader("x-key", "a"), WithProxy("://invalid", FALSE)>>
    /\ Is(out.err, ErrRequest) /\ out.roundTrips = 0

\* o is a header or headers option that sets the canonical key K
SetsKey(o, K) ==
    \/ o.op = "Header" /\ Canon(o.key) = K
    \/ o.op = "Headers" /\ \E j \in 1..Len(o.kv) : Canon(o.kv[j][1]) = K

\* the values o gives for K
GivenValues(o, K) ==
    IF o.op = "Header" THEN {o.val}
    ELSE {o.kv[j][2] : j \in {j \in 1..Len(o.kv) : Canon(o.kv[j][1]) = K}}

LastSetter(all, K) ==
    CHOOSE i \in 1..Len(all) :
        SetsKey(all[i], K) /\ \A j \in (i + 1)..Len(all) : ~SetsKey(all[j], K)

PayloadTouches(all, K) ==
    K = "Content-Type" /\ \E i \in 1..Len(all) : all[i].op \in {"JSON", "Form"}

CookiesTouch(all, K) ==
    K = "Cookie" /\ \E i \in 1..Len(all) : all[i].op = "Cookies" /\ all[i].kv # <<>>

LastHeaderWins(K) ==
    /\ Len(out.sent.header[K]) = 1
    /\ out.sent.header[K][1] \in GivenValues(call.all[LastSetter(call.all, K)], K)

\* C5 as stated: for every header key some header option sets and no JSON
\* or form option touches, the request sent carries exactly the value of the
\* last header option that set it.
C5_AsStated ==
    (Returned /\ out.sent.made) =>
      \A K \in HeaderKeys :
        ((\E i \in 1..Len(call.all) : SetsKey(call.all[i], K))
            /\ ~PayloadTouches(call.all, K))
        => LastHeaderWins(K)

\* C5 amended: the same, for a key that no JSON, form or cookies option
\* touches (a cookies option joins its cookies to the Cookie header's value);
\* so a per-call header option overrides a session default of the same key.
C5_LastHeaderOptionWins ==
    (Returned /\ out.sent.made) =>
      \A K \in HeaderKeys :
        ((\E i \in 1..Len(call.all) : SetsKey(call.all[i], K))
            /\ ~PayloadTouches(call.all, K) /\ ~CookiesTouch(call.all, K))
        => LastHeaderWins(K)

C5_Witness ==
    /\ Returned /\ call.viaSession
    /\ sopts = <<WithHeader("X-Key", "default")>>
    /\ call.opts = <<WithHeader("x-key", "a")>>
    /\ out.sent.header["X-Key"] = <<"a">>

\* the cap the redirect options of the call leave in the builder
CapSet == \E i \in 1..Len(call.all) : call.all[i].op = "Redirect"

Cap ==
    call.all[CHOOSE i \in 1..Len(call.all) :
                call.all[i].op = "Redirect"
                /\ \A j \in (i + 1)..Len(call.all) : call.all[j].op # "Redirect"].n

StatusErrorOf(code) ==
    /\ ~out.resp.nil /\ out.resp.StatusCode = code
    /\ Is(out.err, ErrStatus) /\ out.err.code = code
    /\ ~Is(out.err, ErrNetwork) /\ ~Is(out.err, ErrRequest)

\* C6: with cap 0 the first redirect response is returned with a status
\* error; with cap N > 0 at most N redirects are followed, a further redirect
\* response is returned as it is with a status error, and a chain of at most
\* N redirects that ends in a 2xx returns that response without error;
\* without a cap the client carries no redirect policy and the standard
\* library's own (ten redirects) decides.
C6_RedirectCap ==
    (Returned /\ out.doCalls = 1 /\ server.delay = 0) =>
      /\ (CapSet /\ Cap = 0 /\ server.hops >= 1)
            => (out.roundTrips = 1 /\ StatusErrorOf(302))
      /\ (CapSet /\ Cap > 0) => out.roundTrips <= Cap + 1
      /\ (CapSet /\ Cap > 0 /\ server.hops > Cap)
            => (out.roundTrips = Cap + 1 /\ StatusErrorOf(302))
      /\ (CapSet /\ Cap > 0 /\ server.hops <= Cap /\ server.fail = NoTransportErr
            /\ server.final \in 200..299)
            => (out.roundTrips = server.hops + 1 /\ out.err = NoErr
                /\ ~out.resp.nil /\ out.resp.StatusCode = server.final)
      /\ ~CapSet => out.client.CheckRedirect = "nil"
      /\ (~CapSet /\ server.fail = NoTransportErr /\ server.hops < 10)
            => (out.roundTrips = server.hops + 1 /\ out.resp.StatusCode = server.final)
      /\ (~CapSet /\ server.hops >= 10)
            => (out.roundTrips = 10 /\ out.resp.nil /\ Is(out.err, ErrNetwork))

C6_Witness ==
    /\ Returned /\ CapSet /\ Cap = 1 /\ server.hops = 2
    /\ out.roundTrips = 2 /\ out.resp.StatusCode = 302 /\ Is(out.err, ErrStatus)

\* C9: a failure of the issued call comes back with a nil response and an
\* error of exactly one category, ErrTimeout when the deadline was exceeded
\* or the error reports a timeout and ErrNetwork otherwise; a client timeout
\* shorter than the server's answer is never ErrNetwork.
C9_TimeoutOrNetwork ==
    (Returned /\ out.doCalls = 1) =>
      /\ Answer.terr # NoTransportErr =>
            /\ out.resp.nil
            /\ {s \in Sentinels : Is(out.err, s)}
                 = (IF Answer.terr.deadline \/ Answer.terr.timeout
                    THEN {ErrTimeout} ELSE {ErrNetwork})
      /\ (out.req.timeout > 0 /\ server.delay > out.req.timeout)
            => (out.resp.nil /\ Is(out.err, ErrTimeout) /\ ~Is(out.err, ErrNetwork))

C9_Witness ==
    /\ Returned /\ server.fail = MkTransportErr("dial: i/o timeout", FALSE, TRUE, TRUE)
    /\ server.hops = 0 /\ out.resp.nil /\ Is(out.err, ErrTimeout)

\* the values the query options of the call add for key k, in option order
RECURSIVE OptValues(_, _, _)
OptValues(all, k, i) ==
    IF i > Len(all) THEN <<>>
    ELSE (IF all[i].op = "Query"
          THEN LET hits == SelectSeq(all[i].kv, LAMBDA e : e[1] = k)
               IN  [j \in 1..Len(hits) |-> hits[j][2]]
          ELSE <<>>) \o OptValues(all, k, i + 1)

\* the values the target's query string holds for key k, as written
WrittenValues(rawq, k) ==
    LET hits == SelectSeq(rawq, LAMBDA e : e[1] = k)
    IN  [j \in 1..Len(hits) |-> hits[j][2]]

\* those of the well-formed pairs only
WellFormedValues(rawq, k) ==
    LET hits == SelectSeq(rawq, LAMBDA e : e[1] = k /\ e[3])
    IN  [j \in 1..Len(hits) |-> hits[j][2]]

QuerySupplied == \E k \in QueryKeys : OptValues(call.all, k, 1) # <<>>

\* the values the composed URL's query string holds for key k
SentValues(k) == WrittenValues(out.sent.url.RawQuery, k)

\* C10 as stated: when a query option supplied a parameter the composed
\* query holds, for every key, all the values of the target's query string
\* followed by the values the options added; otherwise the target's query
\* string is sent unchanged.
C10_AsStated ==
    (Returned /\ out.sent.made) =>
      IF QuerySupplied
      THEN \A k \in QueryKeys :
             SentValues(k) = WrittenValues(call.url.rawq, k) \o OptValues(call.all, k, 1)
      ELSE out.sent.url.RawQuery = call.url.rawq

\* C10 amended: when a query option supplied a parameter the composed query
\* holds, for every key, the values of the target's well-formed pairs
\* followed by the values the options added, and nothing else (a malformed
\* pair of the target is not carried over); otherwise the target's query
\* string is sent unchanged.
C10_QueryAdditiveWellFormed ==
    (Returned /\ out.sent.made) =>
      IF QuerySupplied
      THEN \A k \in QueryKeys :
             /\ SentValues(k) = WellFormedValues(call.url.rawq, k) \o OptValues(call.all, k, 1)
             /\ \A j \in 1..Len(out.sent.url.RawQuery) : out.sent.url.RawQuery[j][3]
      ELSE out.sent.url.RawQuery = call.url.rawq

C10_Witness ==
    /\ Returned /\ out.sent.made /\ QuerySupplied
    /\ SentValues("a") = <<"1", "3">> /\ SentValues("b") = <<"2">>

\* ------------------------------------------- properties of the accessors
\* goroutine t has returned from an accessor
HasReturned(t) == thr[t].ret.op # ""

\* what reading the untouched body to its end gives
FirstRead == ReadAll([stream EXCEPT !.pos = 0, !.closes = 0, !.readAlls = 0])

\* C3: on a wrapper with a body, however the calls of Bytes, Text and JSON
\* interleave, the body is read to its end at most once and closed at most
\* once; once a call has returned (and as soon as the Once is done) it has
\* been read once and closed once, whether the read failed or not; every
\* call returns the bytes and the error of that one read.
C3_ReadOnceCloseOnce ==
    Readable(rw) =>
      /\ stream.readAlls <= 1 /\ stream.closes <= 1
      /\ once.done => (stream.readAlls = 1 /\ stream.closes = 1)
      /\ once.done => (cache.body = FirstRead.bytes /\ cache.bodyErr = FirstRead.err)
      /\ \A t \in Threads : HasReturned(t) =>
            /\ once.done
            /\ thr[t].ret.op \in {"Bytes", "Text"}
                  => (thr[t].ret.bytes = FirstRead.bytes /\ thr[t].ret.err = FirstRead.err)
            /\ (thr[t].ret.op = "JSON" /\ FirstRead.err # NoErr)
                  => thr[t].ret.err = FirstRead.err

C3_Witness ==
    /\ Readable(rw) /\ stream.fails /\ stream.failAt = 1 /\ Len(stream.data) = 2
    /\ thr[1].ret.op = "Bytes" /\ thr[2].ret.op = "Text"
    /\ thr[1].ret.bytes = thr[2].ret.bytes /\ Len(thr[1].ret.bytes) = 1
    /\ thr[1].ret.err = thr[2].ret.err /\ thr[1].ret.err # NoErr
    /\ stream.readAlls = 1 /\ stream.closes = 1

\* C4: a failed read of the body (Bytes, Text) and a failed decode of a
\* non-empty body (JSON) come back as errors of the ErrResponse category.
C4_ResponseErrorCategory ==
    Readable(rw) =>
      \A t \in Threads : HasReturned(t) =>
        /\ (thr[t].ret.op \in {"Bytes", "Text"} /\ FirstRead.err # NoErr)
              => Is(thr[t].ret.err, ErrResponse)
        /\ (thr[t].ret.op = "JSON" /\ thr[t].ret.tried /\ thr[t].ret.err # NoErr)
              => (Is(thr[t].ret.err, ErrResponse)
                  /\ ~Is(thr[t].ret.err, ErrResponseNil)
                  /\ ~Is(thr[t].ret.err, ErrNoContent))

\* C7: JSON on a body read without error and of length zero returns
\* ErrNoContent without trying a decode or writing the target; after a failed
\* read it returns the read's error, not ErrNoContent, whatever was read.
C7_EmptyBodyNoContent ==
    Readable(rw) =>
      \A t \in Threads : (HasReturned(t) /\ thr[t].ret.op = "JSON") =>
        /\ (FirstRead.err = NoErr /\ Len(FirstRead.bytes) = 0)
              => (thr[t].ret.err = ErrNoContent /\ ~thr[t].ret.tried /\ ~thr[t].ret.set)
        /\ FirstRead.err # NoErr
              => (thr[t].ret.err = FirstRead.err /\ thr[t].ret.err # ErrNoContent
                  /\ ~thr[t].ret.tried /\ ~thr[t].ret.set)
        /\ thr[t].ret.err = ErrNoContent
              => (FirstRead.err = NoErr /\ Len(FirstRead.bytes) = 0)

C7_Witness ==
    /\ Readable(rw) /\ stream.data = <<>> /\ ~stream.fails
    /\ thr[1].ret.op = "JSON" /\ thr[1].ret.err = ErrNoContent /\ ~thr[1].ret.tried
    /\ stream.closes = 1

\* C8: on a nil wrapper, a wrapper without Raw and a wrapper without
\* Raw.Body, each accessor returns ErrResponseNil and no bytes, does not
\* panic, reads and closes nothing and leaves the Once untouched.
C8_NilResponseRejected ==
    ~Readable(rw) =>
      /\ stream.readAlls = 0 /\ stream.closes = 0
      /\ ~once.done /\ once.holder = 0
      /\ cache = [body |-> <<>>, bodyErr |-> NoErr]
      /\ \A t \in Threads :
            /\ thr[t].pc = "idle"
            /\ HasReturned(t) =>
                  (thr[t].ret.err = ErrResponseNil /\ thr[t].ret.bytes = <<>>
                   /\ ~thr[t].ret.panicked /\ ~thr[t].ret.tried /\ ~thr[t].ret.set)

C8_Witness ==
    /\ ~rw.nil /\ rw.raw /\ ~rw.hasBody
    /\ thr[1].ret.op = "JSON" /\ thr[1].ret.err = ErrResponseNil
    /\ thr[2].ret.op = "Text" /\ thr[2].ret.err = ErrResponseNil
    /\ ~once.done

\* ------------------------------------------- properties of the builder
\* the builder after the first i options of the call were applied
Prefix(i) ==
    FoldOptions(ZeroRequest(call.method, call.url), SubSeq(call.all, 1, i), 1, call.ord)

ContentTypeOf(r) == HeaderGet(r.headers, "Content-Type")

HasOp(all, op) == \E i \in 1..Len(all) : all[i].op = op

LastOp(all, op) ==
    CHOOSE i \in 1..Len(all) :
        all[i].op = op /\ \A j \in (i + 1)..Len(all) : all[j].op # op

\* C11: a JSON option that takes effect leaves a Content-Type the builder
\* already holds as it is and sets "application/json" when there is none; a
\* form option that takes effect leaves exactly
\* "application/x-www-form-urlencoded", whatever was there.  On the wire: a
\* form option not followed by a Content-Type header option decides the
\* Content-Type sent, while a JSON option decides it only when no header
\* option set one.
C11_ContentTypeAsymmetry ==
    Returned =>
      /\ \A i \in 1..Len(call.all) :
            LET before == Prefix(i - 1)
                after == Prefix(i)
                o == call.all[i]
            IN  /\ (o.op = "JSON" /\ o.ok /\ before.err = NoErr) =>
                      /\ ContentTypeOf(before) # ""
                            => after.headers["Content-Type"] = before.headers["Content-Type"]
                      /\ ContentTypeOf(before) = ""
                            => after.headers["Content-Type"] = <<"application/json">>
                /\ (o.op = "Form" /\ before.err = NoErr) =>
                      after.headers["Content-Type"] = <<"application/x-www-form-urlencoded">>
      /\ out.sent.made =>
            /\ (HasOp(call.all, "Form")
                  /\ \A j \in (LastOp(call.all, "Form") + 1)..Len(call.all) :
                        ~SetsKey(call.all[j], "Content-Type"))
                  => out.sent.header["Content-Type"] = <<"application/x-www-form-urlencoded">>
            /\ (HasOp(call.all, "JSON") /\ ~HasOp(call.all, "Form")) =>
                  IF \E j \in 1..Len(call.all) : SetsKey(call.all[j], "Content-Type")
                  THEN LastHeaderWins("Content-Type")
                  ELSE out.sent.header["Content-Type"] = <<"application/json">>

C11_Witness ==
    /\ Returned /\ call.method = "POST"
    /\ call.all = <<WithHeader("Content-Type", "text/plain"), WithForm(<< <<"name", "bob">> >>)>>
    /\ out.sent.made
    /\ out.sent.header["Content-Type"] = <<"application/x-www-form-urlencoded">>

\* what Bytes gives on the wrapper the call returned
Materialized == ReadAll(MkStream(out.body, FALSE, 0))

\* C12: for a gzip-encoded response to a request sent with the caller's own
\* Accept-Encoding: gzip, Bytes and Text give the decompressed content when
\* the decompress-gzip option was applied, and the compressed bytes, which
\* start with the gzip magic, when it was not.
C12_GzipFlagDecides ==
    (Returned /\ out.err = NoErr /\ ~out.resp.nil /\ server.gzip
       /\ call.method # "HEAD"
       /\ out.sent.header["Accept-Encoding"] = <<"gzip">>)
    => /\ Materialized.err = NoErr
       /\ IF out.req.decompressGzip
          THEN Materialized.bytes = server.payload
          ELSE /\ Len(Materialized.bytes) >= 2
               /\ Materialized.bytes[1] = "0x1f"
               /\ Materialized.bytes[2] = "0x8b"

\* the fully folded configuration of the call
Folded == Prefix(Len(call.all))

\* the cookies as one Cookie line: name=value pairs joined by "; "
RECURSIVE CookieLine(_, _)
CookieLine(cookies, i) ==
    IF i > Len(cookies) THEN ""
    ELSE cookies[i][1] \o "=" \o cookies[i][2]
         \o (IF i < Len(cookies) THEN "; " ELSE "") \o CookieLine(cookies, i + 1)

\* the Cookie header of a request made from configuration r: what a header
\* option left there, then the cookies in the order they were appended
ExpectedCookieHeader(r) ==
    IF r.cookies = <<>> THEN r.headers["Cookie"]
    ELSE IF HeaderGet(r.headers, "Cookie") = "" THEN <<CookieLine(r.cookies, 1)>>
    ELSE <<HeaderGet(r.headers, "Cookie") \o "; " \o CookieLine(r.cookies, 1)>>

\* one call went out, with the method, target, headers, query and cookies
\* of the folded configuration
OneCallAsFolded ==
    /\ out.doCalls = 1 /\ out.sent.made /\ out.roundTrips >= 1
    /\ out.req = Folded
    /\ out.sent.method = Folded.method
    /\ out.sent.url.base = Folded.url.base
    /\ \A K \in HeaderKeys \ {"Cookie"} : out.sent.header[K] = Folded.headers[K]
    /\ out.sent.header["Cookie"] = ExpectedCookieHeader(Folded)
    /\ \A k \in QueryKeys :
          /\ Len(SentValues(k)) >= Len(Folded.query[k])
          /\ SubSeq(SentValues(k), Len(SentValues(k)) - Len(Folded.query[k]) + 1,
                    Len(SentValues(k))) = Folded.query[k]
          /\ Folded.query[k] = OptValues(call.all, k, 1)

\* C13 as stated: whenever no option of the call sets the error slot,
\* exactly one call goes out, and it carries the folded configuration.
C13_AsStated ==
    (Returned /\ Folded.err = NoErr) => OneCallAsFolded

\* C13 amended: whenever no option of the call sets the error slot and the
\* target parses as a URL, exactly one call goes out, and it carries the
\* folded configuration; with a target that does not parse no call goes out.
C13_OneCallAsFolded ==
    (Returned /\ Folded.err = NoErr) =>
      IF ParseURL(call.url).err = NoErr
      THEN OneCallAsFolded
      ELSE out.doCalls = 0 /\ ~out.sent.made

C13_Witness ==
    /\ Returned /\ call.method = "PUT"
    /\ call.all = <<WithCookies(<< <<"session", "abc">> >>), WithCookies(<< <<"t", "1">> >>)>>
    /\ out.doCalls = 1
    /\ out.sent.method = "PUT"
    /\ out.sent.header["Cookie"] = <<"session=abc; t=1">>

\* the call got a final response with status code c
FinalResponse(c) ==
    Returned /\ out.doCalls = 1 /\ Answer.terr = NoTransportErr /\ Answer.status = c

\* the wrapper of the response with code c came back with a status error
WithStatusError(c) ==
    /\ ~out.resp.nil /\ out.resp.StatusCode = c
    /\ AsStatusError(out.err) /\ Is(out.err, ErrStatus) /\ out.err.code = c

\* the wrapper of the response with code c came back with a nil error
WithoutError(c) == ~out.resp.nil /\ out.resp.StatusCode = c /\ out.err = NoErr

\* C14 as stated: a status error exactly for the final status codes c with
\* c < 200 or c >= 299, the wrapper with a nil error for 200 <= c < 299.
C14_AsStated ==
    \A c \in FinalStatuses \cup {302} :
        FinalResponse(c) =>
          IF c < 200 \/ c >= 299 THEN WithStatusError(c) ELSE WithoutError(c)

\* C14 amended: a status error exactly for the final status codes c with
\* c < 200 or c >= 300, the wrapper with a nil error for 200 <= c < 300
\* (299 included).
C14_StatusErrorOutside2xx ==
    \A c \in FinalStatuses \cup {302} :
        FinalResponse(c) =>
          IF c < 200 \/ c >= 300 THEN WithStatusError(c) ELSE WithoutError(c)

C14_Witness ==
    /\ FinalResponse(299) /\ call.method = "PATCH"
    /\ out.resp.StatusCode = 299 /\ out.err = NoErr

\* the error a failing option records
ErrOf(o) ==
    IF o.op = "JSON" THEN Foreign("json: unsupported type")
    ELSE Foreign("parse: missing protocol scheme")

AnyFails(all) == \E i \in 1..Len(all) : Fails(all[i])

FirstFailing(all) ==
    CHOOSE i \in 1..Len(all) : Fails(all[i]) /\ \A j \in 1..(i - 1) : ~Fails(all[j])

\* the cookies of all the cookies options, in option order
RECURSIVE AllCookies(_, _)
AllCookies(all, i) ==
    IF i > Len(all) THEN <<>>
    ELSE (IF all[i].op = "Cookies" THEN all[i].kv ELSE <<>>) \o AllCookies(all, i + 1)

\* C16: the error slot, once written, is changed by no later option; the
\* slot of the folded builder holds the error of the first failing option
\* (and none when no option fails), and that is the error dispatch wraps in
\* ErrRequest; every option is applied whatever its place relative to the
\* failing one: the options that do not look at the slot leave their
\* cookies, query values, header values, timeout, redirect cap and gzip flag
\* in the builder.
C16_FirstErrorWins ==
    Returned =>
      /\ \A i \in 1..Len(call.all) :
            Prefix(i - 1).err # NoErr => Prefix(i).err = Prefix(i - 1).err
      /\ out.req = Folded
      /\ IF AnyFails(call.all)
         THEN /\ Folded.err = ErrOf(call.all[FirstFailing(call.all)])
              /\ out.err = Wrapf(ErrRequest, ErrOf(call.all[FirstFailing(call.all)]))
              /\ out.resp.nil /\ out.doCalls = 0
         ELSE Folded.err = NoErr
      /\ Folded.cookies = AllCookies(call.all, 1)
      /\ \A k \in QueryKeys : Folded.query[k] = OptValues(call.all, k, 1)
      /\ Folded.decompressGzip = HasOp(call.all, "DecompressGzip")
      /\ HasOp(call.all, "Timeout")
            => Folded.timeout = call.all[LastOp(call.all, "Timeout")].n
      /\ HasOp(call.all, "Redirect")
            => (Folded.redirectSet
                /\ Folded.redirectMax = call.all[LastOp(call.all, "Redirect")].n)
      /\ \A K \in HeaderKeys \ {"Content-Type"} :
            (\E i \in 1..Len(call.all) : SetsKey(call.all[i], K))
            => /\ Len(Folded.headers[K]) = 1
               /\ Folded.headers[K][1]
                    \in GivenValues(call.all[LastSetter(call.all, K)], K)

C16_Witness ==
    /\ Returned
    /\ call.all = <<WithJSON(FALSE), WithProxy("://invalid", FALSE)>>
    /\ out.req.err = Foreign("json: unsupported type")
    /\ out.err = Wrapf(ErrRequest, Foreign("json: unsupported type"))
    /\ out.resp.nil

\* ---------------------------------------- properties of a shared session
\* the builder a call of goroutine t is to end with: the fold of the
\* session's defaults followed by its own options, and nothing else
OwnFold(t) ==
    newRequest(gor[t].method, gor[t].url, sopts \o gor[t].opts, gor[t].ord)

\* every call in progress works on its own slice and builder, which depend
\* on the defaults and on its own options only
CallsIsolated ==
    \A t \in Callers :
        /\ gor[t].pc \in {"fold", "done"} => gor[t].all = sopts \o gor[t].opts
        /\ gor[t].pc = "fold" =>
              gor[t].req = FoldOptions(ZeroRequest(gor[t].method, gor[t].url),
                                       SubSeq(gor[t].all, 1, gor[t].i - 1), 1, gor[t].ord)
        /\ gor[t].pc = "done" =>
              /\ gor[t].req = OwnFold(t)
              /\ gor[t].out = doBuilt(OwnFold(t), server)
              /\ gor[t].out.req = OwnFold(t)

\* C15: however the calls of the goroutines sharing a session interleave,
\* and whatever the caller of NewSession later writes to the slice it
\* passed, no step changes the session's default options, and every call
\* folds exactly the defaults followed by its own options into a builder of
\* its own.
C15_SessionIsolation == [](CallsIsolated) /\ [][sopts' = sopts]_vars

C15_Witness ==
    /\ sopts = <<WithHeader("X-Key", "default")>> /\ given # sopts
    /\ gor[1].pc = "done" /\ gor[1].opts = <<WithCookies(<< <<"t", "1">> >>)>>
    /\ gor[2].pc = "done" /\ gor[2].opts = <<WithHeader("x-key", "a")>>
    /\ gor[1].out.sent.header["X-Key"] = <<"default">>
    /\ gor[1].out.sent.header["Cookie"] = <<"t=1">>
    /\ gor[2].out.sent.header["X-Key"] = <<"a">>
    /\ gor[2].out.sent.header["Cookie"] = <<>>

====
